---------------------------- MODULE Spec2Model ----------------------------
(***************************************************************************)
(* Stage scheduler of the Nephio-O-RAN agent orchestrator                  *)
(* (orchestration/orchestrator.py, class AgentOrchestrator).               *)
(*                                                                         *)
(* One orchestrator instance is modelled: its in-memory `state` dict, the  *)
(* state.json snapshot on disk, and the position of run_workflow.  The     *)
(* external executor (`claude code ...`) is the environment: each          *)
(* invocation ends in a timeout, an invocation failure, or some text on    *)
(* stdout.  Text is abstracted to what yaml.safe_load makes of it (its     *)
(* Python type, and what `'status' in value` / `'summary' in value`        *)
(* answer), which is all that execute_agent and run_workflow look at.      *)
(***************************************************************************)
EXTENDS Integers, Sequences, FiniteSets

\* ------------------------------------------------------------------ bounds

\* Longest stage list of a custom workflow file (orchestration/workflows/*.yaml).
MaxStages == 2

\* Longest stage list and number of run_workflow calls explored when one
\* orchestrator instance is used for more than one run (SpecReuse).
MaxReuseStages == 1

MaxRuns == 2

\* Orchestrators constructed on one machine, and how long the wall clock is
\* followed (in ticks), when workflow ids are compared (SpecInstances).
MaxInstances == 3

MaxTicks == 3

\* Largest agent table handed to the validator (SpecValidator).
MaxAgents == 3
MaxSharedAgents == 2

\* ------------------------------------------------- workflow definitions

Stage(name, agent, task, timeout, critical) ==
    [name |-> name, agent |-> agent, task |-> task,
     timeout |-> timeout, critical |-> critical]

get_deployment_workflow ==
    [name |-> "complete-deployment",
     description |-> "End-to-end O-RAN deployment with Nephio R5",
     stages |-> <<
        Stage("infrastructure", "nephio-infrastructure-agent",
              "provision O-Cloud infrastructure with 3 nodes for edge deployment", 600, TRUE),
        Stage("dependencies", "oran-nephio-dep-doctor",
              "validate all dependencies and check compatibility", 300, TRUE),
        Stage("configuration", "configuration-management-agent",
              "apply YANG models and Kpt packages for O-RAN components", 450, TRUE),
        Stage("network-functions", "oran-network-functions-agent",
              "deploy O-RAN CU, DU, and RU network functions", 900, TRUE),
        Stage("monitoring", "monitoring-analytics-agent",
              "setup comprehensive observability and monitoring", 300, FALSE),
        Stage("optimization", "performance-optimization-agent",
              "apply initial performance optimizations", 600, FALSE) >>]

get_troubleshooting_workflow ==
    [name |-> "troubleshooting",
     description |-> "Identify and resolve O-RAN issues",
     stages |-> <<
        Stage("diagnosis", "monitoring-analytics-agent",
              "analyze system metrics and identify issues", 300, TRUE),
        Stage("root-cause", "performance-optimization-agent",
              "perform root cause analysis on identified issues", 450, TRUE),
        Stage("remediation", "configuration-management-agent",
              "apply configuration fixes based on root cause analysis", 300, TRUE),
        Stage("verification", "monitoring-analytics-agent",
              "verify that issues are resolved", 300, TRUE) >>]

get_validation_workflow ==
    [name |-> "validation",
     description |-> "Validate security and compliance",
     stages |-> <<
        Stage("security-scan", "security-compliance-agent",
              "perform comprehensive security assessment", 600, TRUE),
        Stage("dependency-check", "oran-nephio-dep-doctor",
              "validate all dependencies for vulnerabilities", 300, TRUE),
        Stage("performance-baseline", "performance-optimization-agent",
              "establish performance baselines and validate SLAs", 450, FALSE) >>]

get_upgrade_workflow ==
    [name |-> "upgrade",
     description |-> "Upgrade O-RAN components",
     stages |-> <<
        Stage("pre-check", "oran-nephio-dep-doctor",
              "validate upgrade compatibility and dependencies", 300, TRUE),
        Stage("backup", "configuration-management-agent",
              "backup current configurations and state", 300, TRUE),
        Stage("upgrade-infra", "nephio-infrastructure-agent",
              "upgrade infrastructure components", 600, TRUE),
        Stage("upgrade-nf", "oran-network-functions-agent",
              "upgrade network functions to new versions", 900, TRUE),
        Stage("validate", "monitoring-analytics-agent",
              "validate upgrade success and system health", 300, TRUE) >>]

BuiltinNames == {"deploy", "troubleshoot", "validate", "upgrade"}

builtin_workflows(workflow_name) ==
    CASE workflow_name = "deploy"       -> get_deployment_workflow
      [] workflow_name = "troubleshoot" -> get_troubleshooting_workflow
      [] workflow_name = "validate"     -> get_validation_workflow
      [] workflow_name = "upgrade"      -> get_upgrade_workflow

\* Names a caller may pass that are not built in: run_workflow then looks
\* for orchestration/workflows/<name>.yaml.
CustomNames == {"custom"}

WorkflowNames == BuiltinNames \cup CustomNames

\* Stage entries a custom workflow file may hold.  The file is read with
\* yaml.safe_load and not validated, so stage names may repeat.
StageNames == {"A", "B"}

CustomStages ==
    { Stage(n, "agent-" \o n, "task-" \o n, 300, c) :
        n \in StageNames, c \in BOOLEAN }

SeqsUpTo(S, n) == UNION { [1..k -> S] : k \in 0..n }

\* What orchestration/workflows/<name>.yaml holds: nothing (no such file),
\* or a definition with at most maxLen stages.
NoFile == [exists |-> FALSE, name |-> "", description |-> "", stages |-> <<>>]

WorkflowFiles(maxLen) ==
    {NoFile} \cup
    { [exists |-> TRUE, name |-> "custom", description |-> "custom workflow",
       stages |-> s] : s \in SeqsUpTo(CustomStages, maxLen) }

\* load_workflow: [found, workflow]; found = FALSE is the ValueError.
NoWorkflow == [name |-> "", description |-> "", stages |-> <<>>]

\* A lookup that takes whatever the path holds, without the exists() test.
load_workflowUnchecked(workflow_name, file) ==
    IF workflow_name \in BuiltinNames
    THEN [found |-> TRUE, workflow |-> builtin_workflows(workflow_name)]
    ELSE [found |-> TRUE,
          workflow |-> [name |-> file.name, description |-> file.description,
                        stages |-> file.stages]]

load_workflow(workflow_name, file) ==
    IF workflow_name \in BuiltinNames
    THEN [found |-> TRUE, workflow |-> builtin_workflows(workflow_name)]
    ELSE IF file.exists
         THEN [found |-> TRUE,
               workflow |-> [name |-> file.name, description |-> file.description,
                             stages |-> file.stages]]
         ELSE [found |-> FALSE, workflow |-> NoWorkflow]

\* --------------------------------------------------- executor outcomes

\* What yaml.safe_load makes of the text handed to it.
\*   load        "ok" or "YAMLError"
\*   type        Python type of the loaded value
\*   has_status  the answer of `'status' in value` (key of a dict, element
\*               of a list, substring of a str); has_summary likewise
\*   status      value['status'] of a dict that has the key
\*   artifacts   value['artifacts']: "none" (absent or empty), "descriptors"
\*               (a list of {name, type, content} mappings) or "names" (a
\*               list of plain strings)
\*   json        FALSE when the value holds something json.dump refuses
\*               (a YAML timestamp loads as datetime.date, !!set as set, ...)
Doc(load, type, has_status, has_summary, status, handoff_to, artifacts, json) ==
    [load |-> load, type |-> type, has_status |-> has_status,
     has_summary |-> has_summary, status |-> status, summary |-> "",
     handoff_to |-> handoff_to, artifacts |-> artifacts, json |-> json]

DictDoc(status, handoff_to, artifacts, json) ==
    [Doc("ok", "dict", TRUE, TRUE, status, handoff_to, artifacts, json)
        EXCEPT !.summary = "stage summary"]

NoDoc == Doc("ok", "NoneType", FALSE, FALSE, "", "", "none", TRUE)

Docs ==
    { NoDoc,                                                 \* empty stdout
      Doc("ok", "int", FALSE, FALSE, "", "", "none", TRUE),   \* a bare scalar: 42
      Doc("ok", "str", FALSE, FALSE, "", "", "none", TRUE),   \* plain prose
      Doc("ok", "str", TRUE, TRUE, "", "", "none", TRUE),     \* prose with both words
      Doc("ok", "list", FALSE, FALSE, "", "", "none", TRUE),  \* a YAML list
      Doc("ok", "list", TRUE, TRUE, "", "", "none", TRUE),    \* [status, summary]
      Doc("YAMLError", "NoneType", FALSE, FALSE, "", "", "none", TRUE),
      Doc("ok", "dict", TRUE, FALSE, "success", "", "none", TRUE),  \* no summary
      DictDoc("success", "", "none", TRUE),
      DictDoc("success", "monitoring-analytics-agent", "descriptors", TRUE),
      DictDoc("warning", "", "names", TRUE),                \* artifacts: [a.yaml]
      DictDoc("error", "", "none", TRUE),
      DictDoc("failed", "", "none", TRUE),
      DictDoc("error", "", "none", FALSE) }                   \* details: 2024-01-01

\* No executor invocation has ended yet.
NoRaw == [outcome |-> "none", doc |-> NoDoc]

\* How one subprocess.run of the executor ends.
RawResults ==
    { [outcome |-> "TimeoutExpired", doc |-> NoDoc],
      [outcome |-> "Exception", doc |-> NoDoc] } \cup
    { [outcome |-> "stdout", doc |-> d] : d \in Docs }

\* A value execute_agent returns: the loaded value itself, or a synthesized dict.
Output(type, has_status, has_summary, status, summary, raw_output, handoff_to, artifacts, json) ==
    [type |-> type, has_status |-> has_status, has_summary |-> has_summary,
     status |-> status, summary |-> summary, raw_output |-> raw_output,
     handoff_to |-> handoff_to, artifacts |-> artifacts, json |-> json]

\* Every dict built by execute_agent itself reported as a warning.
SynthesizedAsWarning(status, summary, raw_output) ==
    Output("dict", TRUE, TRUE, "warning", summary, raw_output, "", "none", TRUE)

Synthesized(status, summary, raw_output) ==
    Output("dict", TRUE, TRUE, status, summary, raw_output, "", "none", TRUE)

\* `field in output for field in required_fields`: raises TypeError when the
\* loaded value is no container (None, int, float, bool).
IsContainer(doc) == doc.type \in {"dict", "list", "str"}

execute_agent(raw) ==
    CASE raw.outcome = "TimeoutExpired" ->
            Synthesized("error", "Agent execution timed out after 5 minutes", FALSE)
      [] raw.outcome = "Exception" ->
            Synthesized("error", "Failed to execute agent: <str(e)>", FALSE)
      [] OTHER ->
            IF raw.doc.load = "YAMLError"
            THEN Synthesized("warning",
                             "Agent executed but output not in YAML format", TRUE)
            ELSE IF ~IsContainer(raw.doc)
            THEN \* TypeError, caught by `except Exception`
                 Synthesized("error", "Failed to execute agent: <str(e)>", FALSE)
            ELSE IF ~(raw.doc.has_status /\ raw.doc.has_summary)
            THEN Synthesized("warning",
                             "Agent executed but output format incomplete", TRUE)
            ELSE Output(raw.doc.type, TRUE, TRUE, raw.doc.status, raw.doc.summary,
                        FALSE, raw.doc.handoff_to, raw.doc.artifacts, raw.doc.json)

\* ------------------------------------------------------------------ state

VARIABLES
    state,      \* self.state: status, stages, artifacts, completed_at
    disk,       \* <state_dir>/state.json
    pc,         \* where run_workflow is: idle, loop, exec, returned, raised
    workflow,   \* the definition load_workflow returned to the current run
    i,          \* the stage the for loop is at (1-based)
    ret,        \* what run_workflow returned: "none", "state", "dry_run_complete"
    now,        \* logical clock behind datetime.now()
    runs,       \* run_workflow calls made on this instance
    invoked,    \* history: stages the executor was invoked for in this run
    recorded,   \* history: stages whose StageResult was stored in this run
    errors,     \* history: stages whose result had status 'error' in this run
    last,       \* history: how the latest executor invocation ended
    call,       \* history: the arguments of the current run_workflow call
    wait,       \* history: the timeout= handed to the latest subprocess.run
    context,    \* the context dict built for the latest stage (context.yaml)
    raw_files,  \* the writes of <agent>-output.txt files, oldest first
    exit_code,  \* what main() handed to sys.exit; NotExited while it runs
    observed,   \* what another process last read from state.json
    instances,  \* the orchestrators constructed so far on this machine
    wall,       \* the wall clock, in ticks
    agents,     \* WorkflowValidator: the table handed to the validator
    answer,     \* WorkflowValidator: the latest call and what it returned
    frames      \* WorkflowValidator: the locals of the calls in progress

vars == <<state, disk, pc, workflow, i, ret, now, runs, invoked, recorded, errors, last, call, wait, context, raw_files, exit_code, observed, instances, wall, agents, answer, frames>>

\* What the stage scheduler leaves alone: the process around it, other
\* processes, other orchestrators.
around == <<exit_code, observed, instances, wall, agents, answer, frames>>

\* state['stages'] is a dict: insertion-ordered, one entry per key.
StageKeys(stages) == { stages[k].name : k \in 1..Len(stages) }

StageEntry(stages, name) ==
    stages[CHOOSE k \in 1..Len(stages) : stages[k].name = name]

\* self.state['stages'][name] = result
put_stage(stages, name, result) ==
    IF name \in StageKeys(stages)
    THEN [k \in 1..Len(stages) |->
            IF stages[k].name = name THEN [name |-> name, result |-> result]
            ELSE stages[k]]
    ELSE Append(stages, [name |-> name, result |-> result])

\* if 'artifacts' in output and output['artifacts']: state['artifacts'][name] = ...
put_artifacts(artifacts, name, output) ==
    IF output.artifacts # "none"
    THEN { a \in artifacts : a.stage # name }
            \cup {[stage |-> name, artifacts |-> output.artifacts]}
    ELSE artifacts

\* json.dump raises TypeError on a value it cannot encode.
Serializable(st) ==
    \A k \in 1..Len(st.stages) : st.stages[k].result.output.json

\* A save that leaves the file as it was.
save_stateSkipped(st) == [raised |-> FALSE, file |-> disk]

\* save_state: open(state_file, "w") truncates, json.dump then writes the
\* document piece by piece; when it raises, a prefix of the document stays.
save_state(st) ==
    [raised |-> ~Serializable(st),
     file |-> [torn |-> ~Serializable(st), state |-> st]]

StageResult(stage, output, completed_at) ==
    [agent |-> stage.agent, task |-> stage.task, output |-> output,
     completed_at |-> completed_at]

\* stage.get('critical', True)
IsCritical(stage) == IF "critical" \in DOMAIN stage THEN stage.critical ELSE TRUE

\* A test that takes every status but 'success' and 'warning' for an error.
StatusIsNotSuccess(output) == output.status \notin {"success", "warning"}

\* output['status'] == 'error'
StatusIsError(output) == output.status = "error"

\* output['status'] on a str or a list raises TypeError.
Subscriptable(output) == output.type = "dict"

\* if output['status'] == 'error': if stage.get('critical', True): ... return
HaltsNever(stage, output) == FALSE

Halts(stage, output) == StatusIsError(output) /\ IsCritical(stage)

\* for i, stage in enumerate(workflow['stages'], 1)
NextStageRetry(k) == k

\* A loop that jumps to the stage run by the agent named in handoff_to.
NextStageFollowingHandoff(k) ==
    LET targets == { n \in 1..Len(workflow.stages) :
                       workflow.stages[n].agent = last'.doc.handoff_to }
    IN IF targets # {} THEN CHOOSE n \in targets : TRUE ELSE k + 1

NextStage(k) == k + 1

\* A constructor that leaves the status for run_workflow to set.
InitialStateUnstarted ==
    [status |-> "pending", started_at |-> 1, stages |-> <<>>,
     artifacts |-> {}, completed_at |-> 0]

InitialState ==
    [status |-> "running", started_at |-> 1, stages |-> <<>>,
     artifacts |-> {}, completed_at |-> 0]

\* The context of a stage: the name run_workflow was called with, the
\* stage's name, the keys of state['stages'] in their order, and for each
\* key the summary of its output ('No summary' when the output has none).
\* previous_outputs is only set when state['stages'] is not empty; the
\* mapping over no keys stands for the absent key.
NoContext ==
    [workflow |-> "", stage |-> "", previous_stages |-> <<>>,
     previous_outputs |-> <<>>]

\* A context that leaves the earlier outputs out.
build_contextWithoutOutputs(workflow_name, stage, stages) ==
    [workflow |-> workflow_name, stage |-> stage.name,
     previous_stages |-> [k \in 1..Len(stages) |-> stages[k].name],
     previous_outputs |-> <<>>]

build_context(workflow_name, stage, stages) ==
    [workflow |-> workflow_name, stage |-> stage.name,
     previous_stages |-> [k \in 1..Len(stages) |-> stages[k].name],
     previous_outputs |->
        [n \in StageKeys(stages) |->
            LET output == StageEntry(stages, n).result.output IN
            IF output.type = "dict" /\ output.has_summary
            THEN output.summary ELSE "No summary"]]

\* self.state_dir / f"{agent}-output.txt"
output_file(agent) == agent \o "-output.txt"

\* No validator call yet.
NoAnswer == [call |-> "none"]

\* The threads that call the validator's methods, and the frame of a thread
\* that has made no call.
Invocations == {1, 2}

NoFrame == [call |-> "none"]

\* No run_workflow call yet; main() has not reached sys.exit.
NoCall == [workflow_name |-> "", dry_run |-> FALSE, file_exists |-> FALSE]

NotExited == -1

\* AgentOrchestrator.__init__
Init ==
    /\ state = InitialState
    /\ disk = [torn |-> FALSE, state |-> InitialState]
    /\ pc = "idle"
    /\ workflow = NoWorkflow
    /\ i = 0
    /\ ret = "none"
    /\ now = 1
    /\ runs = 0
    /\ invoked = <<>>
    /\ recorded = <<>>
    /\ errors = {}
    /\ last = NoRaw
    /\ call = NoCall
    /\ wait = 0
    /\ context = NoContext
    /\ raw_files = <<>>
    /\ exit_code = NotExited
    /\ observed = "nothing"
    /\ instances = <<>>
    /\ wall = 0
    /\ agents = <<>>
    /\ answer = NoAnswer
    /\ frames = [p \in Invocations |-> NoFrame]

\* A key a workflow file leaves out: reading it raises KeyError.
Missing == "<missing>"

StageHasKeys(stage) == stage.agent # Missing

\* Where run_workflow stands once the definition is loaded.
raise_exception == [pc |-> "raised", ret |-> "none", i |-> 0]

dry_run_complete == [pc |-> "returned", ret |-> "dry_run_complete", i |-> 0]

first_stage == [pc |-> "loop", ret |-> "none", i |-> 1]

\* A dry run that is carried out like any other run.
run_workflow_entryIgnoringDryRun(loaded, dry_run) == first_stage

\* workflow['description'] is logged, then a dry run logs every stage's name
\* and agent and returns; otherwise the stage loop is entered.
run_workflow_entry(loaded, dry_run) ==
    IF loaded.description = Missing THEN raise_exception
    ELSE IF dry_run
    THEN IF \A k \in 1..Len(loaded.stages) : StageHasKeys(loaded.stages[k])
         THEN dry_run_complete
         ELSE raise_exception
    ELSE first_stage

\* run_workflow up to the stage loop: load the definition, dry run or not.
\* `file` is what orchestration/workflows/<workflow_name>.yaml holds.
run_workflow(workflow_name, dry_run, file) ==
    LET loaded == load_workflow(workflow_name, file) IN
    /\ runs' = runs + 1
    /\ invoked' = <<>>
    /\ recorded' = <<>>
    /\ errors' = {}
    /\ last' = NoRaw
    /\ call' = [workflow_name |-> workflow_name, dry_run |-> dry_run,
                file_exists |-> workflow_name \notin BuiltinNames /\ file.exists]
    /\ UNCHANGED <<state, disk, now, wait, context, raw_files, around>>
    /\ IF ~loaded.found
       THEN /\ pc' = "raised"
            /\ ret' = "none"
            /\ workflow' = NoWorkflow
            /\ i' = 0
       ELSE LET entry == run_workflow_entry(loaded.workflow, dry_run) IN
            /\ workflow' = loaded.workflow
            /\ pc' = entry.pc
            /\ ret' = entry.ret
            /\ i' = entry.i

\* main(): one orchestrator, one run_workflow call.
RunWorkflow ==
    /\ pc = "idle"
    /\ \E workflow_name \in WorkflowNames, dry_run \in BOOLEAN,
          file \in WorkflowFiles(MaxStages) :
          run_workflow(workflow_name, dry_run, file)

\* subprocess.run(..., timeout=300): the same bound for every stage.
subprocess_timeout == 300

\* The loop body up to subprocess.run: the executor is started for stage i.
InvokeStage ==
    /\ pc = "loop"
    /\ i <= Len(workflow.stages)
    /\ IF StageHasKeys(workflow.stages[i])
       THEN /\ invoked' = Append(invoked, i)
            /\ pc' = "exec"
            /\ wait' = subprocess_timeout
       ELSE \* stage['agent'] raised KeyError
            /\ pc' = "raised"
            /\ UNCHANGED <<invoked, wait>>
    /\ context' = build_context(call.workflow_name, workflow.stages[i], state.stages)
    /\ UNCHANGED <<state, disk, workflow, i, ret, now, runs, recorded, errors, last, call, raw_files, around>>

\* The executor call ends with `raw`; the rest of the loop body runs.
ExecutorReturns ==
    /\ pc = "exec"
    /\ \E raw \in RawResults :
        LET stage == workflow.stages[i]
            output == execute_agent(raw)
            st1 == [state EXCEPT
                      !.stages = put_stage(@, stage.name,
                                           StageResult(stage, output, now + 1)),
                      !.artifacts = put_artifacts(@, stage.name, output)]
            saved1 == save_state(st1)
            st2 == [st1 EXCEPT !.status = "failed"]
        IN
        /\ last' = raw
        /\ recorded' = Append(recorded, i)
        /\ errors' = IF Subscriptable(output) /\ StatusIsError(output)
                     THEN errors \cup {i} ELSE errors
        /\ now' = now + 1
        /\ raw_files' = IF raw.outcome = "stdout"
                        THEN Append(raw_files,
                                    [file |-> output_file(stage.agent), stage |-> i])
                        ELSE raw_files
        /\ UNCHANGED <<workflow, runs, invoked, call, wait, context, around>>
        /\ IF saved1.raised
           THEN \* json.dump raised inside save_state
                /\ state' = st1
                /\ disk' = saved1.file
                /\ pc' = "raised"
                /\ UNCHANGED <<i, ret>>
           ELSE IF ~Subscriptable(output)
           THEN \* output['status'] raised TypeError
                /\ state' = st1
                /\ disk' = saved1.file
                /\ pc' = "raised"
                /\ UNCHANGED <<i, ret>>
           ELSE IF Halts(stage, output)
           THEN /\ state' = st2
                /\ disk' = save_state(st2).file
                /\ pc' = "returned"
                /\ ret' = "state"
                /\ UNCHANGED i
           ELSE /\ state' = st1
                /\ disk' = saved1.file
                /\ pc' = "loop"
                /\ i' = NextStage(i)
                /\ UNCHANGED ret

\* After the loop: the workflow is complete.
Complete ==
    /\ pc = "loop"
    /\ i > Len(workflow.stages)
    /\ LET st == [state EXCEPT !.status = "completed", !.completed_at = now + 1]
           saved == save_state(st)
       IN /\ state' = st
          /\ disk' = saved.file
          /\ now' = now + 1
          /\ IF saved.raised
             THEN pc' = "raised" /\ UNCHANGED ret
             ELSE pc' = "returned" /\ ret' = "state"
    /\ UNCHANGED <<workflow, i, runs, invoked, recorded, errors, last, call, wait, context, raw_files, around>>

Next == RunWorkflow \/ InvokeStage \/ ExecutorReturns \/ Complete

Spec == Init /\ [][Next]_vars

\* The interpreter keeps running the one thread of run_workflow, and
\* subprocess.run(..., timeout=...) returns or raises TimeoutExpired: a step
\* that can be taken is taken.
SpecLive == Init /\ [][Next]_vars /\ WF_vars(Next)

\* A caller of the class may call run_workflow again on the same instance.
RunWorkflowAgain ==
    /\ pc \in {"idle", "returned", "raised"}
    /\ runs < MaxRuns
    /\ \E workflow_name \in CustomNames, dry_run \in BOOLEAN,
          file \in WorkflowFiles(MaxReuseStages) :
          run_workflow(workflow_name, dry_run, file)

NextReuse == RunWorkflowAgain \/ InvokeStage \/ ExecutorReturns \/ Complete

SpecReuse == Init /\ [][NextReuse]_vars

\* ------------------------------------------- unvalidated workflow files

\* A custom file is whatever yaml.safe_load returns: a stage entry may lack
\* its `agent`, the definition may lack its `description`.
MalformedStages == { Stage("B", Missing, "task-B", 300, TRUE) }

\* A stage entry of a custom file that has no `critical` key.
StagesWithoutCritical ==
    { [name |-> "A", agent |-> "agent-A", task |-> "task-A", timeout |-> 300] }

AnyWorkflowFiles(maxLen) ==
    {NoFile} \cup
    { [exists |-> TRUE, name |-> "custom", description |-> d, stages |-> s] :
        d \in {"custom workflow", Missing},
        s \in SeqsUpTo(CustomStages \cup MalformedStages \cup StagesWithoutCritical,
                        maxLen) }

RunWorkflowFile ==
    /\ pc = "idle"
    /\ \E workflow_name \in CustomNames, dry_run \in BOOLEAN,
          file \in AnyWorkflowFiles(MaxStages) :
          run_workflow(workflow_name, dry_run, file)

NextFiles == RunWorkflowFile \/ InvokeStage \/ ExecutorReturns \/ Complete

SpecFiles == Init /\ [][NextFiles]_vars

\* ------------------------------------------------------------ main()

\* generate_report reads artifact.get('name') of every stored artifact: it
\* raises AttributeError unless the artifacts are mappings.
generate_report(st) ==
    [raised |-> \E a \in st.artifacts : a.artifacts # "descriptors"]

\* main() up to run_workflow: argparse admits the four built-in names only.
MainStarts ==
    /\ pc = "idle"
    /\ \E workflow_name \in BuiltinNames, dry_run \in BOOLEAN :
          run_workflow(workflow_name, dry_run, NoFile)

\* main() after run_workflow: the report of a run that was no dry run, then
\* sys.exit(0 if result.get('status') in ['completed', 'dry_run_complete']
\* else 1); any exception on the way ends in sys.exit(1).
MainExits ==
    /\ pc \in {"returned", "raised"}
    /\ exit_code = NotExited
    /\ exit_code' =
          IF pc = "raised" THEN 1
          ELSE IF ~call.dry_run /\ generate_report(state).raised THEN 1
          ELSE IF ret = "dry_run_complete" \/ state.status = "completed" THEN 0
          ELSE 1
    /\ UNCHANGED <<state, disk, pc, workflow, i, ret, now, runs, invoked, recorded, errors, last, call, wait, context, raw_files, observed, instances, wall, agents, answer, frames>>

NextMain ==
    MainStarts \/ InvokeStage \/ ExecutorReturns \/ Complete \/ MainExits

SpecMain == Init /\ [][NextMain]_vars

\* ------------------------------------------- a reader of state.json

\* save_state writes in place: open(state_file, "w") empties state.json, then
\* json.dump fills it piece by piece.  For a process that watches the file
\* the save of the next step therefore starts with this one: the executor
\* has returned (or the loop has ended) and the file has just been opened.
OpenStateFile ==
    /\ \/ pc = "exec"
       \/ pc = "loop" /\ i > Len(workflow.stages)
    /\ ~disk.torn
    /\ disk' = [disk EXCEPT !.torn = TRUE]
    /\ UNCHANGED <<state, pc, workflow, i, ret, now, runs, invoked, recorded, errors, last, call, wait, context, raw_files, around>>

\* Another process reads state.json (json.load of a torn file fails).
ReadStateFile ==
    /\ observed' = IF disk.torn THEN "torn" ELSE "snapshot"
    /\ UNCHANGED <<state, disk, pc, workflow, i, ret, now, runs, invoked, recorded, errors, last, call, wait, context, raw_files, exit_code, instances, wall, agents, answer, frames>>

\* One run of a workflow file, watched by a reader.
RunWatchedWorkflow ==
    /\ pc = "idle"
    /\ \E workflow_name \in CustomNames, file \in WorkflowFiles(MaxStages) :
          run_workflow(workflow_name, FALSE, file)

NextWatched ==
    \/ RunWatchedWorkflow \/ InvokeStage \/ ExecutorReturns \/ Complete
    \/ OpenStateFile \/ ReadStateFile

SpecWatched == Init /\ [][NextWatched]_vars

\* ------------------------------------- several orchestrator instances

\* The wall clock advances in ticks shorter than a second.
TicksPerSecond == 2

\* datetime.now().strftime("%Y%m%d-%H%M%S"): the clock cut to whole seconds.
strftime(tick) ==
    <<"20250101-000000", "20250101-000001", "20250101-000002",
      "20250101-000003">>[(tick \div TicksPerSecond) + 1]

\* --workflow-id values; None when the option is not given.
None == "None"

GivenIds == {None, "run-a", "run-b"}

\* self.workflow_id = workflow_id or datetime.now().strftime(...)
default_workflow_id(workflow_id, tick) ==
    IF workflow_id = None THEN strftime(tick) ELSE workflow_id

\* Path.home() / ".claude-workflows" / self.workflow_id, and state.json in it
state_file(workflow_id) == "~/.claude-workflows/" \o workflow_id \o "/state.json"

\* AgentOrchestrator(workflow_id): mkdir(parents=True, exist_ok=True) accepts
\* a directory that is already there, and save_state() writes state.json.
Construct ==
    /\ Len(instances) < MaxInstances
    /\ \E workflow_id \in GivenIds :
         LET id == default_workflow_id(workflow_id, wall) IN
         instances' = Append(instances,
                             [workflow_id |-> id, state_file |-> state_file(id)])
    /\ UNCHANGED <<state, disk, pc, workflow, i, ret, now, runs, invoked, recorded, errors, last, call, wait, context, raw_files, exit_code, observed, wall, agents, answer, frames>>

Tick ==
    /\ wall < MaxTicks
    /\ wall' = wall + 1
    /\ UNCHANGED <<state, disk, pc, workflow, i, ret, now, runs, invoked, recorded, errors, last, call, wait, context, raw_files, exit_code, observed, instances, agents, answer, frames>>

NextInstances == Construct \/ Tick

SpecInstances == Init /\ [][NextInstances]_vars

\* ------------------------------------- workflow-validation.py: the validator

\* WorkflowValidator.canonical_workflow, in the order of the dict literal.
canonical_workflow ==
    << [agent |-> "nephio-infrastructure-agent", stage |-> 1],
       [agent |-> "oran-nephio-dep-doctor-agent", stage |-> 2],
       [agent |-> "configuration-management-agent", stage |-> 3],
       [agent |-> "oran-network-functions-agent", stage |-> 4],
       [agent |-> "monitoring-analytics-agent", stage |-> 5],
       [agent |-> "data-analytics-agent", stage |-> 6],
       [agent |-> "performance-optimization-agent", stage |-> 7],
       [agent |-> "testing-validation-agent", stage |-> 8],
       [agent |-> "security-compliance-agent", stage |-> 0],
       [agent |-> "oran-nephio-orchestrator-agent", stage |-> 0] >>

CanonicalAgents == { canonical_workflow[k].agent : k \in 1..Len(canonical_workflow) }

\* self.canonical_workflow.get(agent_name, 0)
canonical_get(agent_name) ==
    IF agent_name \in CanonicalAgents
    THEN canonical_workflow[CHOOSE k \in 1..Len(canonical_workflow) :
                              canonical_workflow[k].agent = agent_name].stage
    ELSE 0

\* WorkflowValidator.valid_handoffs: the keys and the list of each key.
valid_handoffs(from_agent) ==
    CASE from_agent = "nephio-infrastructure-agent" -> {"oran-nephio-dep-doctor-agent"}
      [] from_agent = "oran-nephio-dep-doctor-agent" ->
            {"configuration-management-agent", "testing-validation-agent"}
      [] from_agent = "configuration-management-agent" -> {"oran-network-functions-agent"}
      [] from_agent = "oran-network-functions-agent" -> {"monitoring-analytics-agent"}
      [] from_agent = "monitoring-analytics-agent" ->
            {"data-analytics-agent", "performance-optimization-agent"}
      [] from_agent = "data-analytics-agent" -> {"performance-optimization-agent"}
      [] from_agent = "performance-optimization-agent" -> {"testing-validation-agent", None}
      [] from_agent = "testing-validation-agent" -> {None}
      [] from_agent = "security-compliance-agent" ->
            {"nephio-infrastructure-agent", "oran-nephio-dep-doctor-agent"}
      [] from_agent = "oran-nephio-orchestrator-agent" -> CanonicalAgents
      [] OTHER -> {}

\* Every agent of canonical_workflow is a key of valid_handoffs.
valid_handoffs_keys == CanonicalAgents

\* A validator that lets an undeclared agent hand off anywhere.
validate_handoffLenient(from_agent, to_agent) ==
    IF to_agent = None THEN TRUE
    ELSE IF from_agent \notin valid_handoffs_keys THEN TRUE
    ELSE to_agent \in valid_handoffs(from_agent)

validate_handoff(from_agent, to_agent) ==
    IF to_agent = None THEN TRUE
    ELSE IF from_agent \notin valid_handoffs_keys THEN FALSE
    ELSE to_agent \in valid_handoffs(from_agent)

\* The table agents: Dict[str, Agent] in insertion order; `name` is the key.
\* accepts_from is read by no method and is left out.
Agent(name, hands_off_to, workflow_stage) ==
    [name |-> name, hands_off_to |-> hands_off_to, workflow_stage |-> workflow_stage]

TableKeys ==
    << "configuration-management-agent", "oran-nephio-dep-doctor-agent",
       "security-compliance-agent", "custom-agent" >>

Reverse(s) == [k \in 1..Len(s) |-> s[Len(s) + 1 - k]]

HandoffTargets ==
    { TableKeys[k] : k \in 1..Len(TableKeys) }
        \cup {"monitoring-analytics-agent", "testing-validation-agent", None, "null"}

\* The stage an entry declares: the canonical one, or 0.
DeclaredStages(name) == {0, canonical_get(name)}

KeyLists(maxLen) ==
    { SelectSeq(order, LAMBDA name : name \in S) :
        order \in {TableKeys, Reverse(TableKeys)},
        S \in { T \in SUBSET { TableKeys[k] : k \in 1..Len(TableKeys) } :
                  Cardinality(T) <= maxLen } }

\* The entries a key may have.
EntriesFor(name) ==
    { Agent(name, to, declared) :
        to \in HandoffTargets, declared \in DeclaredStages(name) }

RECURSIVE TablesOver(_)
TablesOver(keys) ==
    IF keys = <<>> THEN {<<>>}
    ELSE { <<entry>> \o rest :
             entry \in EntriesFor(Head(keys)), rest \in TablesOver(Tail(keys)) }

AgentTables(maxLen) == UNION { TablesOver(keys) : keys \in KeyLists(maxLen) }

TableNames(table) == { table[k].name : k \in 1..Len(table) }

\* agents.get(agent_name)
agents_get(table, agent_name) ==
    table[CHOOSE k \in 1..Len(table) : table[k].name = agent_name]

\* An index that keeps the whole path: the position of the path's first agent.
indexOfHead(path, x) == CHOOSE k \in 1..Len(path) : path[k] = Head(path) /\ \A j \in 1..(k - 1) : path[j] # Head(path)

\* path.index(agent_name)
index(path, x) == CHOOSE k \in 1..Len(path) : path[k] = x /\ \A j \in 1..(k - 1) : path[j] # x

\* dfs of detect_circular_dependency, with the nonlocal sets `visited` and
\* `rec_stack` threaded through; cycle = <<>> is the None it returns.
RECURSIVE dfs(_, _, _, _, _)
dfs(table, agent_name, path, visited, rec_stack) ==
    IF agent_name \in rec_stack
    THEN [cycle |-> SubSeq(path, index(path, agent_name), Len(path)) \o <<agent_name>>,
          visited |-> visited, rec_stack |-> rec_stack]
    ELSE IF agent_name \in visited
    THEN [cycle |-> <<>>, visited |-> visited, rec_stack |-> rec_stack]
    ELSE LET v == visited \cup {agent_name}
             r == rec_stack \cup {agent_name}
         IN IF agent_name \in TableNames(table)
               /\ agents_get(table, agent_name).hands_off_to # None
            THEN LET below == dfs(table, agents_get(table, agent_name).hands_off_to,
                                  Append(path, agent_name), v, r)
                 IN IF below.cycle # <<>> THEN below
                    ELSE [cycle |-> <<>>, visited |-> below.visited,
                          rec_stack |-> below.rec_stack \ {agent_name}]
            ELSE [cycle |-> <<>>, visited |-> v, rec_stack |-> r \ {agent_name}]

\* for agent_name in agents: if agent_name not in visited: ...
RECURSIVE detect_from(_, _, _, _)
detect_from(table, k, visited, rec_stack) ==
    IF k > Len(table) THEN <<>>
    ELSE IF table[k].name \in visited
    THEN detect_from(table, k + 1, visited, rec_stack)
    ELSE LET found == dfs(table, table[k].name, <<>>, visited, rec_stack)
         IN IF found.cycle # <<>> THEN found.cycle
            ELSE detect_from(table, k + 1, found.visited, found.rec_stack)

\* A detection that only follows the chain of the first agent.
detect_circular_dependencyFirstOnly(table) ==
    IF table = <<>> THEN <<>> ELSE dfs(table, table[1].name, <<>>, {}, {}).cycle

detect_circular_dependency(table) == detect_from(table, 1, {}, {})

\* The two agents that are skipped by name.
ExemptAgents == {"oran-nephio-orchestrator-agent", "security-compliance-agent"}

\* One appended message: "<agent> (stage <from>) cannot handoff to <to>
\* (stage <to_stage>) - violates progression".
ProgressionError(agent, from_stage, to, to_stage) ==
    [agent |-> agent, from_stage |-> from_stage, hands_off_to |-> to,
     to_stage |-> to_stage]

\* The progression check without the `to_stage != 0` test.
progression_errorZeroTargets(agent) ==
    LET from_stage == canonical_get(agent.name)
        to_stage == canonical_get(agent.hands_off_to)
    IN IF agent.hands_off_to \in {None, "null"} THEN <<>>
       ELSE IF agent.name \in ExemptAgents THEN <<>>
       ELSE IF to_stage <= from_stage
               /\ agent.hands_off_to # "testing-validation-agent"
       THEN << ProgressionError(agent.name, from_stage, agent.hands_off_to, to_stage) >>
       ELSE <<>>

\* The body of the loop of validate_workflow_progression for one entry:
\* the messages it appends.
progression_error(agent) ==
    LET from_stage == canonical_get(agent.name)
        to_stage == canonical_get(agent.hands_off_to)
    IN IF agent.hands_off_to \in {None, "null"} THEN <<>>
       ELSE IF agent.name \in ExemptAgents THEN <<>>
       ELSE IF to_stage # 0 /\ to_stage <= from_stage
               /\ agent.hands_off_to # "testing-validation-agent"
       THEN << ProgressionError(agent.name, from_stage, agent.hands_off_to, to_stage) >>
       ELSE <<>>

RECURSIVE validate_workflow_progression(_)
validate_workflow_progression(table) ==
    IF table = <<>> THEN <<>>
    ELSE progression_error(Head(table)) \o validate_workflow_progression(Tail(table))

\* Everything but the validator's table and answer.
orchestrator == <<state, disk, pc, workflow, i, ret, now, runs, invoked, recorded, errors, last, call, wait, context, raw_files, exit_code, observed, instances, wall>>

\* A table is handed to a fresh validator.
LoadTable ==
    /\ agents = <<>>
    /\ answer = NoAnswer
    /\ \E table \in AgentTables(MaxAgents) \ {<<>>} : agents' = table
    /\ UNCHANGED <<answer, frames, orchestrator>>

DetectCircularDependency ==
    /\ answer = NoAnswer
    /\ answer' = [call |-> "detect_circular_dependency",
                  cycle |-> detect_circular_dependency(agents)]
    /\ UNCHANGED <<agents, frames, orchestrator>>

ValidateWorkflowProgression ==
    /\ answer = NoAnswer
    /\ answer' = [call |-> "validate_workflow_progression",
                  errors |-> validate_workflow_progression(agents)]
    /\ UNCHANGED <<agents, frames, orchestrator>>

FromAgents ==
    {"nephio-infrastructure-agent", "performance-optimization-agent",
     "oran-nephio-orchestrator-agent", "custom-agent"}

ToAgents ==
    {None, "oran-nephio-dep-doctor-agent", "testing-validation-agent",
     "oran-nephio-orchestrator-agent", "custom-agent"}

\* validate_handoff reads no table.
ValidateHandoff ==
    /\ answer = NoAnswer
    /\ agents = <<>>
    /\ \E from_agent \in FromAgents, to_agent \in ToAgents :
          answer' = [call |-> "validate_handoff", from_agent |-> from_agent,
                     to_agent |-> to_agent,
                     valid |-> validate_handoff(from_agent, to_agent)]
    /\ UNCHANGED <<agents, frames, orchestrator>>

NextValidator ==
    \/ LoadTable \/ DetectCircularDependency \/ ValidateWorkflowProgression
    \/ ValidateHandoff

SpecValidator == Init /\ [][NextValidator]_vars


\* ------------------------------------------ concurrent calls of the validator
\* Two threads call methods of one WorkflowValidator on one table. A frame
\* holds the locals of a call: the position k of its `for` loop, and for
\* detect_circular_dependency the sets `visited` and `rec_stack` and the
\* arguments of the innermost dfs call in progress. Each step is one
\* iteration of a loop or one call of dfs.

\* The tables the threads share: targets among the table's keys, or None.
SharedEntriesFor(name) ==
    { Agent(name, to, canonical_get(name)) :
        to \in { TableKeys[k] : k \in 1..Len(TableKeys) } \cup {None} }

RECURSIVE SharedTablesOver(_)
SharedTablesOver(keys) ==
    IF keys = <<>> THEN {<<>>}
    ELSE { <<entry>> \o rest :
             entry \in SharedEntriesFor(Head(keys)),
             rest \in SharedTablesOver(Tail(keys)) }

SharedTables(maxLen) == UNION { SharedTablesOver(keys) : keys \in KeyLists(maxLen) }

LoadSharedTable ==
    /\ agents = <<>>
    /\ answer = NoAnswer
    /\ \E table \in SharedTables(MaxSharedAgents) \ {<<>>} : agents' = table
    /\ UNCHANGED <<answer, frames, orchestrator>>

InProgress(p) == frames[p].call # "none" /\ ~frames[p].returned

\* visited = set(); rec_stack = set()  -- and `overlapped` records whether
\* another call was in progress when this one started.
detect_frame(p) ==
    [call |-> "detect_circular_dependency", k |-> 1, in_dfs |-> FALSE,
     agent_name |-> None, path |-> <<>>, visited |-> {}, rec_stack |-> {},
     returned |-> FALSE, cycle |-> <<>>,
     overlapped |-> \E q \in Invocations \ {p} : InProgress(q)]

\* errors = []
progression_frame(p) ==
    [call |-> "validate_workflow_progression", k |-> 1, errors |-> <<>>,
     returned |-> FALSE,
     overlapped |-> \E q \in Invocations \ {p} : InProgress(q)]

\* validate_handoff has no loop: the call returns in the step that makes it.
handoff_frames(p) ==
    { [call |-> "validate_handoff", from_agent |-> from_agent,
       to_agent |-> "oran-nephio-dep-doctor-agent", returned |-> TRUE,
       valid |-> validate_handoff(from_agent, "oran-nephio-dep-doctor-agent"),
       overlapped |-> \E q \in Invocations \ {p} : InProgress(q)] :
        from_agent \in {"nephio-infrastructure-agent", "custom-agent"} }

Invoke(p) ==
    /\ agents # <<>>
    /\ frames[p].call = "none"
    /\ \E frame \in {detect_frame(p), progression_frame(p)} \cup handoff_frames(p) :
          frames' = [frames EXCEPT ![p] = frame]
    /\ UNCHANGED <<agents, answer, orchestrator>>

\* A `visited` set that the validator keeps for all its calls.
visited_ofShared(p) == UNION { frames[q].visited : q \in { r \in Invocations : frames[r].call = "detect_circular_dependency" } }

\* The set `visited` that a call of detect_circular_dependency reads: the
\* local of that call.
visited_of(p) == frames[p].visited

\* for agent_name in agents: if agent_name not in visited: dfs(agent_name, [])
DetectLoop(p) ==
    LET f == frames[p] IN
    /\ f.call = "detect_circular_dependency"
    /\ ~f.returned
    /\ ~f.in_dfs
    /\ frames' = [frames EXCEPT ![p] =
          IF f.k > Len(agents) THEN [f EXCEPT !.returned = TRUE]
          ELSE IF agents[f.k].name \in visited_of(p) THEN [f EXCEPT !.k = f.k + 1]
          ELSE [f EXCEPT !.in_dfs = TRUE, !.agent_name = agents[f.k].name,
                         !.path = <<>>]]
    /\ UNCHANGED <<agents, answer, orchestrator>>

\* One call dfs(agent_name, path). When it returns None every dfs call
\* below it on the stack returns None too, each after removing its own
\* agent from rec_stack, and the loop moves on.
DfsStep(p) ==
    LET f == frames[p]
        unwound == [f EXCEPT !.in_dfs = FALSE, !.k = f.k + 1,
                      !.rec_stack = f.rec_stack \ { f.path[k] : k \in 1..Len(f.path) }]
    IN
    /\ f.call = "detect_circular_dependency"
    /\ ~f.returned
    /\ f.in_dfs
    /\ frames' = [frames EXCEPT ![p] =
          IF f.agent_name \in f.rec_stack
          THEN [f EXCEPT !.returned = TRUE,
                  !.cycle = SubSeq(f.path, index(f.path, f.agent_name), Len(f.path))
                                \o <<f.agent_name>>]
          ELSE IF f.agent_name \in visited_of(p) THEN unwound
          ELSE IF f.agent_name \in TableNames(agents)
                  /\ agents_get(agents, f.agent_name).hands_off_to # None
          THEN [f EXCEPT !.visited = f.visited \cup {f.agent_name},
                  !.rec_stack = f.rec_stack \cup {f.agent_name},
                  !.agent_name = agents_get(agents, f.agent_name).hands_off_to,
                  !.path = Append(f.path, f.agent_name)]
          ELSE [unwound EXCEPT !.visited = f.visited \cup {f.agent_name}]]
    /\ UNCHANGED <<agents, answer, orchestrator>>

\* One iteration of the loop of validate_workflow_progression, or its return.
ProgressionStep(p) ==
    LET f == frames[p] IN
    /\ f.call = "validate_workflow_progression"
    /\ ~f.returned
    /\ frames' = [frames EXCEPT ![p] =
          IF f.k > Len(agents) THEN [f EXCEPT !.returned = TRUE]
          ELSE [f EXCEPT !.k = f.k + 1,
                         !.errors = f.errors \o progression_error(agents[f.k])]]
    /\ UNCHANGED <<agents, answer, orchestrator>>

NextConcurrent ==
    \/ LoadSharedTable
    \/ \E p \in Invocations : Invoke(p)
    \/ \E p \in Invocations : DetectLoop(p)
    \/ \E p \in Invocations : DfsStep(p)
    \/ \E p \in Invocations : ProgressionStep(p)

SpecConcurrent == Init /\ [][NextConcurrent]_vars

\* ------------------------------------------------------------- the claims

Range(s) == { s[k] : k \in 1..Len(s) }

Upto(n) == [k \in 1..n |-> k]

Distinct(s) == \A a, b \in 1..Len(s) : a # b => s[a] # s[b]

\* The stage the latest finished executor invocation was for, and the value
\* execute_agent returned for it.
LastIndex == recorded[Len(recorded)]

LastStage == workflow.stages[LastIndex]

LastOutput == execute_agent(last)

LastHasStatusError == LastOutput.type = "dict" /\ LastOutput.status = "error"

\* stdout that is no mapping holding both `status` and `summary`.
LacksFields(raw) ==
    /\ raw.outcome = "stdout"
    /\ ~(raw.doc.load = "ok" /\ raw.doc.type = "dict"
         /\ raw.doc.has_status /\ raw.doc.has_summary)

\* C1: as soon as a critical stage's executor result has status 'error',
\* state.status is 'failed' in memory and in the persisted snapshot,
\* state.stages holds results for exactly the stages up to and including
\* that stage, and the executor was invoked for no later stage.
C1_Halting ==
    (recorded # <<>> /\ LastHasStatusError /\ LastStage.critical) =>
        /\ state.status = "failed"
        /\ ~disk.torn
        /\ disk.state.status = "failed"
        /\ StageKeys(state.stages) =
              { workflow.stages[k].name : k \in 1..LastIndex }
        /\ invoked = Upto(LastIndex)
        /\ pc = "returned"

\* C2: a non-critical stage whose result has status 'error' does not fail
\* the run: its result is recorded, the next stage is attempted, and a run
\* in which only non-critical stages errored ends 'completed' with every
\* stage recorded.
C2_NonCriticalContinuation ==
    /\ (recorded # <<>> /\ LastHasStatusError /\ ~LastStage.critical) =>
          /\ state.status # "failed"
          /\ LastStage.name \in StageKeys(state.stages)
          /\ pc # "raised"
          /\ LastIndex < Len(workflow.stages) =>
                (pc = "loop" /\ i = LastIndex + 1) \/ LastIndex + 1 \in Range(invoked)
    /\ (pc = "returned" /\ ret = "state"
        /\ \A k \in errors : ~workflow.stages[k].critical) =>
          /\ state.status = "completed"
          /\ Range(recorded) = 1..Len(workflow.stages)

\* C3: state.status = 'completed' only if every stage of the definition
\* was attempted and has a StageResult, and no critical stage produced
\* status 'error'.
C3_CompletedOnlyIfAllAttempted ==
    state.status = "completed" =>
        /\ Range(invoked) = 1..Len(workflow.stages)
        /\ Range(recorded) = 1..Len(workflow.stages)
        /\ \A k \in 1..Len(workflow.stages) :
              workflow.stages[k].name \in StageKeys(state.stages)
        /\ \A k \in errors : ~workflow.stages[k].critical

\* C3 witness: a run of at least two stages completed although a
\* (non-critical) stage reported an error.
C3_Witness ==
    /\ state.status = "completed"
    /\ Len(workflow.stages) >= 2
    /\ errors # {}

\* C4: only a critical stage whose result has status 'error' fails the
\* run; executor output that is unparsable or incomplete never turns the
\* run into 'failed' and never aborts run_workflow, on a critical stage
\* included: the result is recorded and the run continues.
C4_OnlyCriticalErrorFails ==
    /\ state.status = "failed" =>
          recorded # <<>> /\ LastHasStatusError /\ LastStage.critical
    /\ (recorded # <<>> /\ LacksFields(last)) =>
          /\ state.status # "failed"
          /\ pc # "raised"
          /\ LastStage.name \in StageKeys(state.stages)

\* C5: for every raw executor text that lacks a `status` or a `summary`
\* field the parser returns a record with status 'warning'.
C5_MalformedIsWarning ==
    LacksFields(last) =>
        LastOutput.type = "dict" /\ LastOutput.status = "warning"

\* C6: the executor invocations of a run are a prefix of the stage list,
\* in order; a run that ended with a proper prefix was halted by a
\* critical stage's error.
C6_StrictOrder ==
    /\ invoked = Upto(Len(invoked))
    /\ Len(invoked) <= Len(workflow.stages)
    /\ (pc \in {"returned", "raised"} /\ ret # "dry_run_complete"
        /\ Len(invoked) < Len(workflow.stages)) =>
          /\ state.status = "failed"
          /\ LastHasStatusError /\ LastStage.critical
          /\ LastIndex = Len(invoked)

\* C7: nothing is retried: the executor is invoked at most once per stage
\* and a result is stored at most once per stage; a stage that timed out or
\* could not be invoked is recorded once, and then the run halts (critical)
\* or moves on to the next stage (non-critical).
C7_NoRetry ==
    /\ Distinct(invoked)
    /\ Distinct(recorded)
    /\ (recorded # <<>> /\ last.outcome \in {"TimeoutExpired", "Exception"}) =>
          /\ Cardinality({ k \in 1..Len(recorded) : recorded[k] = LastIndex }) = 1
          /\ LastStage.name \in StageKeys(state.stages)
          /\ StageEntry(state.stages, LastStage.name).result.output.status = "error"
          /\ IF LastStage.critical
             THEN pc = "returned" /\ state.status = "failed"
                  /\ Len(invoked) = Len(recorded)
             ELSE pc # "raised" /\ i = LastIndex + 1
                  /\ state.status # "failed"

\* C7 witness: a non-critical stage timed out and the next stage has been
\* started.
C7_Witness ==
    /\ recorded # <<>>
    /\ last.outcome = "TimeoutExpired"
    /\ ~LastStage.critical
    /\ Len(invoked) = Len(recorded) + 1

\* C8: state.stages only gains entries: no key is removed and no existing
\* entry is overwritten.
C8_StagesOnlyGrow ==
    [][\A n \in StageKeys(state.stages) :
          /\ n \in StageKeys(state'.stages)
          /\ StageEntry(state'.stages, n) = StageEntry(state.stages, n)]_vars

\* C9: once state.status is 'completed' or 'failed' it never changes
\* again, whatever is called on the orchestrator instance.
C9_StatusMonotone ==
    [][state.status \in {"completed", "failed"} =>
          state'.status = state.status]_vars

\* C10: once state.status has left 'running', the stages, artifacts,
\* status and completed_at fields stay as they are under every later
\* operation, a further run_workflow call included.
C10_FrozenAfterTerminal ==
    [][state.status \in {"completed", "failed"} =>
          /\ state'.stages = state.stages
          /\ state'.artifacts = state.artifacts
          /\ state'.status = state.status
          /\ state'.completed_at = state.completed_at]_vars

\* C11: the snapshot is current whenever the executor is invoked for a stage
\* and whenever run_workflow returns from a non-dry run: state.json is whole
\* and holds the in-memory state, no mutation of stages, artifacts or status
\* is left unsaved.
C11_SnapshotCurrent ==
    (pc = "exec" \/ (pc = "returned" /\ ret = "state"))
        => (~disk.torn /\ disk.state = state)

\* The second stage is being invoked with the first one's result and
\* artifacts stored.
C11_Witness ==
    /\ pc = "exec"
    /\ i = 2
    /\ Len(state.stages) = 1
    /\ state.artifacts # {}

\* C12: save_state replaces the snapshot atomically: a process reading
\* state.json while the orchestrator runs never gets an empty, partial or
\* torn file.
C12_ReaderSeesSnapshot == observed # "torn"

\* C13: no two orchestrator instances share a workflow_id, defaulted or
\* given, so no two of them write the same state file.
C13_SingleWriter ==
    \A a, b \in 1..Len(instances) :
        a # b => /\ instances[a].workflow_id # instances[b].workflow_id
                 /\ instances[a].state_file # instances[b].state_file

\* C14: the wait bound applied to an executor invocation is the `timeout` of
\* the stage being run.
C14_StageTimeoutApplied ==
    pc = "exec" => wait = workflow.stages[i].timeout

\* A timeout or invocation failure of the latest invocation did not abort
\* the run: the stage's stored result has status 'error' and the given
\* summary, and the criticality policy was applied to it.
FailureHandled(timeout_summary, failure_summary) ==
    (recorded # <<>> /\ last.outcome \in {"TimeoutExpired", "Exception"}) =>
        LET output == StageEntry(state.stages, LastStage.name).result.output IN
        /\ pc # "raised"
        /\ LastStage.name \in StageKeys(state.stages)
        /\ output.status = "error"
        /\ output.summary = IF last.outcome = "TimeoutExpired"
                            THEN timeout_summary ELSE failure_summary
        /\ LastIndex \in errors
        /\ IF LastStage.critical
           THEN pc = "returned" /\ ret = "state" /\ state.status = "failed"
           ELSE i = LastIndex + 1 /\ state.status # "failed"

C16_DryRunChangesNothing ==
    call.dry_run =>
        /\ invoked = <<>>
        /\ recorded = <<>>
        /\ state = InitialState
        /\ state.status \notin {"completed", "failed"}
        /\ disk = [torn |-> FALSE, state |-> InitialState]
        /\ \/ pc = "returned" /\ ret = "dry_run_complete"
           \/ pc = "raised" /\ workflow = NoWorkflow

\* The dry run of a workflow of six stages has returned.
C16_Witness ==
    /\ call.dry_run
    /\ ret = "dry_run_complete"
    /\ Len(workflow.stages) = 6

\* C17: the exit code is 0 exactly when the run ended 'completed' or as a
\* completed dry run, and nonzero otherwise; a dry run of a built-in
\* workflow exits with 0.
C17_ExitCode ==
    exit_code # NotExited =>
        /\ exit_code = 0 <=>
              /\ pc = "returned"
              /\ ret = "dry_run_complete" \/ state.status = "completed"
        /\ (call.dry_run /\ call.workflow_name \in BuiltinNames) => exit_code = 0

\* C18: when the process exits nonzero after a run that was no dry run was
\* started, state.json holds status 'failed'; it is not left 'running'.
C18_FailureVisibleOnDisk ==
    (exit_code # NotExited /\ exit_code # 0 /\ ~call.dry_run) =>
        /\ ~disk.torn
        /\ disk.state.status = "failed"

\* C19: for each built-in name load_workflow returns that workflow's
\* definition, whose stage list is not empty; for any other name without a
\* definition file it raises the not-found error and returns no definition,
\* so the run ends there.
C19_LoadWorkflow ==
    pc # "idle" =>
        /\ call.workflow_name \in BuiltinNames =>
              /\ workflow = builtin_workflows(call.workflow_name)
              /\ Len(workflow.stages) > 0
              /\ \A k \in 1..Len(workflow.stages) :
                    workflow.stages[k].agent # "" /\ workflow.stages[k].task # ""
        /\ (call.workflow_name \notin BuiltinNames /\ ~call.file_exists) =>
              /\ pc = "raised"
              /\ workflow = NoWorkflow
              /\ invoked = <<>>
              /\ state = InitialState

\* A name that is no built-in and has no file was asked for.
C19_Witness ==
    /\ call.workflow_name \in CustomNames
    /\ ~call.file_exists
    /\ pc = "raised"

\* The loaded definition has the shape {name, description, stages: [{name,
\* agent, task, timeout, critical}]}.
WellShaped(definition) ==
    /\ definition.description # Missing
    /\ \A k \in 1..Len(definition.stages) : StageHasKeys(definition.stages[k])

\* C20: a run whose workflow name is unknown, or whose definition file has
\* not the required shape, never invokes the executor, never records a
\* StageResult and never returns a result: it aborts before any stage runs.
C20_DefinitionErrorsFatal ==
    (pc # "idle" /\ (workflow = NoWorkflow \/ ~WellShaped(workflow))) =>
        /\ invoked = <<>>
        /\ recorded = <<>>
        /\ state.stages = <<>>
        /\ pc # "returned"

\* C21: handoff_to is advisory: once a stage whose output names a hand-off
\* target has been handled without halting the run, the stage that follows
\* is the next entry of the definition, and the stages invoked so far are an
\* initial segment of the definition in its order, whatever the target.
C21_HandoffAdvisory ==
    /\ invoked = Upto(Len(invoked))
    /\ (recorded # <<>> /\ last.outcome = "stdout" /\ last.doc.handoff_to # ""
        /\ LastOutput.handoff_to # "") =>
          /\ pc # "raised"
          /\ state.status # "failed"
          /\ i = LastIndex + 1
          /\ Len(invoked) \in {LastIndex, LastIndex + 1}

\* The first stage of troubleshoot named monitoring-analytics-agent (the
\* agent of stages 1 and 4) and stage 2 has been started.
C21_Witness ==
    /\ call.workflow_name = "troubleshoot"
    /\ recorded = <<1>>
    /\ LastOutput.handoff_to = "monitoring-analytics-agent"
    /\ invoked = <<1, 2>>

\* The names of the stages recorded so far in this run, in recording order.
RecordedNames == [k \in 1..Len(recorded) |-> workflow.stages[recorded[k]].name]

\* C22: while the executor runs for a stage, the context written for it
\* holds the workflow name, that stage's name, the names of the stages
\* recorded earlier in this run in their order, and for each of those names
\* the summary of the output stored for it.
C22_Context ==
    pc = "exec" =>
        /\ context.workflow = call.workflow_name
        /\ context.stage = workflow.stages[i].name
        /\ Range(context.previous_stages) = Range(RecordedNames)
        /\ Distinct(context.previous_stages)
        /\ Distinct(RecordedNames) => context.previous_stages = RecordedNames
        /\ DOMAIN context.previous_outputs = Range(RecordedNames)
        /\ \A n \in Range(RecordedNames) :
              context.previous_outputs[n] =
                  StageEntry(state.stages, n).result.output.summary
        /\ recorded # <<>> =>
              context.previous_outputs[LastStage.name] = LastOutput.summary

\* The third stage runs with two earlier summaries that differ.
C22_Witness ==
    /\ pc = "exec"
    /\ i = 3
    /\ Len(context.previous_stages) = 2
    /\ context.previous_outputs[context.previous_stages[1]]
          # context.previous_outputs[context.previous_stages[2]]

\* The stage whose text a file holds: that of the latest write to it.
FileHolds(file) ==
    raw_files[CHOOSE k \in 1..Len(raw_files) :
                /\ raw_files[k].file = file
                /\ \A later \in (k + 1)..Len(raw_files) : raw_files[later].file # file].stage

\* C23: every stage whose executor returned text has a raw-output file of
\* its own that holds the text returned for that stage: no file written for
\* one stage is overwritten for another stage of the run.
C23_RawFilePerStage ==
    \A k \in 1..Len(raw_files) : FileHolds(raw_files[k].file) = raw_files[k].stage

\* The outputs stored in StageResults have the StructuredOutput shape.
StructuredOutput(output) ==
    /\ output.type = "dict"
    /\ output.has_status
    /\ output.has_summary
    /\ output.status \in {"success", "warning", "error"}

\* C24: every output stored in a StageResult is a record holding `status`
\* and `summary` with status one of success, warning, error, whatever
\* text the executor returned.
C24_StoredOutputsStructured ==
    \A k \in 1..Len(state.stages) : StructuredOutput(state.stages[k].result.output)

\* The hands_off_to edge of a table: the target an entry names, None for a
\* name without entry or without target.
Edge(table, name) ==
    IF name \in TableNames(table) THEN agents_get(table, name).hands_off_to ELSE None

RECURSIVE Follow(_, _, _)
Follow(table, name, steps) ==
    IF steps = 0 \/ name = None THEN name
    ELSE Follow(table, Edge(table, name), steps - 1)

\* Some agent comes back to itself along the edges.
HasCycle(table) ==
    \E k \in 1..Len(table), steps \in 1..Len(table) :
        Follow(table, table[k].name, steps) = table[k].name

\* c is a closed walk along the edges.
IsCycle(table, c) ==
    /\ Len(c) >= 2
    /\ c[1] = c[Len(c)]
    /\ \A j \in 1..(Len(c) - 1) : Edge(table, c[j]) = c[j + 1]

\* C26: detect_circular_dependency returns none exactly when the hands_off_to
\* edges of the table have no cycle, and otherwise a cycle of the table; for
\* a table X -> Y -> Z -> X it returns [X, Y, Z, X].
C26_CycleDetection ==
    answer.call = "detect_circular_dependency" =>
        /\ answer.cycle = <<>> <=> ~HasCycle(agents)
        /\ answer.cycle # <<>> => IsCycle(agents, answer.cycle)
        /\ (/\ Len(agents) = 3
            /\ agents[1].hands_off_to = agents[2].name
            /\ agents[2].hands_off_to = agents[3].name
            /\ agents[3].hands_off_to = agents[1].name)
           => answer.cycle = << agents[1].name, agents[2].name, agents[3].name,
                                agents[1].name >>

\* A cycle of two agents that the first agent of the table is not part of.
C26_Witness ==
    /\ answer.call = "detect_circular_dependency"
    /\ Len(agents) = 3
    /\ Len(answer.cycle) = 3
    /\ answer.cycle[1] # agents[1].name

\* The entry of the table has a hand-off target.
HasTarget(agent) == agent.hands_off_to \notin {None, "null"}

\* The answer holds a violation for the agent.
Flagged(name) ==
    \E k \in 1..Len(answer.errors) : answer.errors[k].agent = name

\* A hand-off that does not progress: the target's canonical stage is not
\* strictly greater than the source's and the target is not the terminal agent.
NoProgress(agent) ==
    /\ ~(canonical_get(agent.hands_off_to) > canonical_get(agent.name))
    /\ agent.hands_off_to # "testing-validation-agent"

\* C27: a hand-off from an agent that is not exempt (canonical stage not 0)
\* is reported exactly when the target's canonical stage is not strictly
\* greater than the source's and the target is not testing-validation-agent;
\* this includes targets of stage 0 and targets unknown to the canonical order.
C27_ProgressionFlagged ==
    answer.call = "validate_workflow_progression" =>
        \A k \in 1..Len(agents) :
            (HasTarget(agents[k]) /\ canonical_get(agents[k].name) # 0) =>
                (Flagged(agents[k].name) <=> NoProgress(agents[k]))

\* C28 as stated: an entry whose workflow_stage is 0 is never reported,
\* whatever its target, and an entry with another workflow_stage is
\* reported when its hand-off goes back to an earlier or equal stage.
C28_AsStated ==
    answer.call = "validate_workflow_progression" =>
        \A k \in 1..Len(agents) :
            /\ agents[k].workflow_stage = 0 => ~Flagged(agents[k].name)
            /\ (/\ agents[k].workflow_stage # 0
                /\ HasTarget(agents[k])
                /\ canonical_get(agents[k].hands_off_to) \in 1..agents[k].workflow_stage
                /\ agents[k].hands_off_to # "testing-validation-agent")
               => Flagged(agents[k].name)

\* C28 by canonical stage: an agent whose canonical stage is 0 (by name, or
\* because the canonical order does not know it) is never reported, whatever
\* its target and whatever workflow_stage its entry declares; an agent of
\* another canonical stage is reported when its hand-off goes back to an
\* earlier or equal stage.
C28_StageZeroExempt ==
    answer.call = "validate_workflow_progression" =>
        \A k \in 1..Len(agents) :
            /\ canonical_get(agents[k].name) = 0 => ~Flagged(agents[k].name)
            /\ (/\ canonical_get(agents[k].name) # 0
                /\ HasTarget(agents[k])
                /\ canonical_get(agents[k].hands_off_to) \in 1..canonical_get(agents[k].name)
                /\ agents[k].hands_off_to # "testing-validation-agent")
               => Flagged(agents[k].name)

\* security-compliance-agent and an agent unknown to the canonical order
\* hand off to a staged and to a stage-0 agent; a staged agent hands off
\* backwards and is reported.
C28_Witness ==
    /\ answer.call = "validate_workflow_progression"
    /\ Len(agents) = 3
    /\ \E a, b, c \in 1..3 :
          /\ agents[a].name = "security-compliance-agent"
          /\ agents[a].hands_off_to = "oran-nephio-dep-doctor-agent"
          /\ agents[b].name = "custom-agent"
          /\ agents[b].hands_off_to = "security-compliance-agent"
          /\ agents[c].name = "configuration-management-agent"
          /\ agents[c].hands_off_to = "oran-nephio-dep-doctor-agent"
    /\ Len(answer.errors) = 1

\* How many messages the answer holds for the agent.
ErrorsFor(name) ==
    Cardinality({ k \in 1..Len(answer.errors) : answer.errors[k].agent = name })

\* C29: the result holds exactly one entry for every agent of the table
\* whose hand-off violates progression, and none for the others.
C29_AllViolationsListed ==
    answer.call = "validate_workflow_progression" =>
        \A k \in 1..Len(agents) :
            ErrorsFor(agents[k].name) =
                IF HasTarget(agents[k]) /\ canonical_get(agents[k].name) # 0
                   /\ NoProgress(agents[k])
                THEN 1 ELSE 0

\* C30: validate_handoff answers true whenever to is none; otherwise true
\* exactly when from has a declared hand-off set that holds to.
C30_ValidateHandoff ==
    answer.call = "validate_handoff" =>
        answer.valid =
            \/ answer.to_agent = None
            \/ /\ answer.from_agent \in valid_handoffs_keys
               /\ answer.to_agent \in valid_handoffs(answer.from_agent)

\* An agent without declared hand-offs was asked about a target and refused.
C30_Witness ==
    /\ answer.call = "validate_handoff"
    /\ answer.from_agent = "custom-agent"
    /\ answer.to_agent = "testing-validation-agent"
    /\ ~answer.valid

\* The agents validate_handoff accepts as the next one after `from_agent`.
Accepted(from_agent) ==
    { to_agent \in CanonicalAgents \cup FromAgents \cup (ToAgents \ {None}) :
        validate_handoff(from_agent, to_agent) }

\* The agents reached from the set `seen` by accepted hand-offs.
RECURSIVE ReachedFrom(_)
ReachedFrom(seen) ==
    LET more == seen \cup UNION { Accepted(a) : a \in seen }
    IN IF more = seen THEN seen ELSE ReachedFrom(more)

\* C31: no agent reaches itself along hand-offs that validate_handoff
\* accepts: a hand-off from -> to that was accepted never leads from `to`
\* back to `from` (and `to` is not `from` itself).
C31_NoSelfReference ==
    (answer.call = "validate_handoff" /\ answer.valid /\ answer.to_agent # None) =>
        answer.from_agent \notin ReachedFrom({answer.to_agent})

\* What the call of thread p returns when nothing else runs.
AloneResult(p) ==
    CASE frames[p].call = "detect_circular_dependency" ->
            frames[p].cycle = detect_circular_dependency(agents)
      [] frames[p].call = "validate_workflow_progression" ->
            frames[p].errors = validate_workflow_progression(agents)
      [] frames[p].call = "validate_handoff" ->
            frames[p].valid = validate_handoff(frames[p].from_agent, frames[p].to_agent)
      [] OTHER -> TRUE

\* C32: the validator is pure and stateless: whatever the interleaving of
\* the steps of concurrent calls, every call returns what it returns when it
\* runs alone on the table, and no step of a call changes the table.
C32_PureAndStateless ==
    /\ [](\A p \in Invocations :
            (frames[p].call # "none" /\ frames[p].returned) => AloneResult(p))
    /\ [][agents # <<>> => agents' = agents]_vars

\* Two overlapping calls of detect_circular_dependency have both returned a
\* cycle.
C32_Witness ==
    /\ \A p \in Invocations :
          /\ frames[p].call = "detect_circular_dependency"
          /\ frames[p].returned
          /\ frames[p].cycle # <<>>
    /\ \E p \in Invocations : frames[p].overlapped

\* The table A -> B, B -> C, C -> B, in this order of insertion.
LeadInTable(table) ==
    /\ Len(table) = 3
    /\ table[1].hands_off_to = table[2].name
    /\ table[2].hands_off_to = table[3].name
    /\ table[3].hands_off_to = table[2].name

\* C33: a cycle that detect_circular_dependency returns is the sub-path from
\* the revisited agent back to itself: it starts and ends with the same
\* agent, which occurs nowhere in between, every consecutive pair is a
\* declared hands_off_to edge of the table, and the chain that leads into
\* the cycle is left out: A -> B -> C -> B gives [B, C, B], X -> X gives [X, X].
C33_CycleIsSubPath ==
    (answer.call = "detect_circular_dependency" /\ answer.cycle # <<>>) =>
        LET c == answer.cycle IN
        /\ Len(c) >= 2
        /\ c[1] = c[Len(c)]
        /\ \A j, k \in 1..(Len(c) - 1) : j # k => c[j] # c[k]
        /\ \A j \in 1..(Len(c) - 1) :
              /\ c[j] \in TableNames(agents)
              /\ agents_get(agents, c[j]).hands_off_to = c[j + 1]
        /\ LeadInTable(agents) =>
              c = << agents[2].name, agents[3].name, agents[2].name >>
        /\ agents[1].hands_off_to = agents[1].name =>
              c = << agents[1].name, agents[1].name >>

\* The cycle B, C, B was reported for a table that A leads into.
C33_Witness ==
    /\ answer.call = "detect_circular_dependency"
    /\ LeadInTable(agents)
    /\ Len(answer.cycle) = 3
    /\ agents[1].name \notin { answer.cycle[k] : k \in 1..Len(answer.cycle) }

\* The WorkflowState as the constructor builds it, and state.json holding it
\* whole.
FreshlyPersisted ==
    /\ state.status = "running"
    /\ state.stages = <<>>
    /\ state.artifacts = {}
    /\ disk = [torn |-> FALSE, state |-> state]

\* C34: from construction on, before run_workflow is called, when the
\* workflow has been resolved (or was not found) and no stage has been handed
\* to the executor yet, and throughout a dry run, the WorkflowState is the
\* initial one, with status 'running' and no stages and no artifacts, and
\* state.json holds it.
C34_PersistedAtConstruction ==
    (\/ pc = "idle"
     \/ pc = "loop" /\ invoked = <<>>
     \/ workflow = NoWorkflow
     \/ call.dry_run) => FreshlyPersisted

\* A dry run has returned and state.json holds the initial state.
C34_Witness ==
    /\ call.dry_run
    /\ pc = "returned"
    /\ ret = "dry_run_complete"
    /\ FreshlyPersisted

\* C35: progression validity implies acyclicity: when
\* validate_workflow_progression returns no violation for a table that holds
\* neither the orchestrator agent nor the security agent,
\* detect_circular_dependency returns none for that table.
C35_ProgressionImpliesAcyclic ==
    (/\ answer.call = "validate_workflow_progression"
     /\ answer.errors = <<>>
     /\ TableNames(agents) \cap ExemptAgents = {}) =>
        detect_circular_dependency(agents) = <<>>

\* C36: a run_workflow call that is not a dry run and whose workflow was
\* found eventually returns, with state.status 'completed' or 'failed'.
C36_Terminates ==
    (pc \in {"loop", "exec"} /\ ~call.dry_run)
        ~> (pc = "returned" /\ ret = "state" /\ state.status \in {"completed", "failed"})

\* C37: a stage whose definition has no `critical` field is treated as
\* critical: once its result has status 'error', the run has halted with
\* status 'failed' and no later stage is invoked.
C37_CriticalByDefault ==
    (/\ recorded # <<>>
     /\ "critical" \notin DOMAIN LastStage
     /\ LastHasStatusError) =>
        /\ pc = "returned"
        /\ state.status = "failed"
        /\ invoked = Upto(LastIndex)

\* C38: every status other than 'error' and 'warning' counts as success: a
\* critical stage whose output is a mapping with such a status (e.g.
\* 'failed') never sets state.status to 'failed', in memory or on disk, and
\* does not end the run: run_workflow returns only after the last stage, with
\* status 'completed'.
C38_OtherStatusIsSuccess ==
    (/\ recorded # <<>>
     /\ LastStage.critical
     /\ LastOutput.type = "dict"
     /\ LastOutput.status \notin {"error", "warning"}) =>
        /\ state.status # "failed"
        /\ disk.state.status # "failed"
        /\ pc = "returned" =>
              /\ state.status = "completed"
              /\ LastIndex = Len(workflow.stages)

\* The first, critical stage reported status 'failed' and the second stage
\* has been handed to the executor.
C38_Witness ==
    /\ recorded = <<1>>
    /\ LastStage.critical
    /\ LastOutput.type = "dict"
    /\ LastOutput.status = "failed"
    /\ invoked = <<1, 2>>
    /\ pc = "exec"
    /\ state.status = "running"

=============================================================================
